---- MODULE Spec2Model ----
(***************************************************************************)
(* rindex: JSON directory listing service (src/explorer.rs, src/service.rs)*)
(*                                                                         *)
(* Text (String, PathBuf, response bytes) is a sequence of one-character   *)
(* strings.  A filesystem is a function from absolute paths (sequences of  *)
(* component names) to nodes.                                              *)
(*                                                                         *)
(* Left out: failures of the socket read and write, of readdir(3) on an    *)
(* open directory (entry.unwrap()) and of Metadata::modified, and the log  *)
(* lines, which never alter a response.                                    *)
(***************************************************************************)
EXTENDS Integers, Sequences, FiniteSets, TLC

VARIABLES
    fs,             \* the filesystem
    pc,             \* position of each request task
    request,        \* the request line each task's client sent
    full_path,      \* handle_request: directory.join(target)
    absolute_path,  \* query_directory: the canonicalized directory
    pending,        \* the children read_dir yields that are not yet resolved
    file_list,      \* query_directory: the collected, then sorted, entries
    collected,      \* history: the entries in the order the collect received them
    polling,        \* the tasks an executor thread is running (between awaits)
    result,         \* what query_directory (or handle_request) returned
    socket_out      \* the responses written to each task's socket

vars == <<fs, pc, request, full_path, absolute_path, pending, file_list,
          collected, polling, result, socket_out>>

(* ---------------------------- bounds ----------------------------------- *)

\* largest number of children of the listed directory "a"
MaxChildren == 3
\* longest entry list handed to the sort / serialize pipeline on its own
MaxLen == 3
\* number of threads of the async runtime that run the request tasks
ExecutorThreads == 2

(* ---------------------------- text ------------------------------------- *)

\* a character outside ASCII, two bytes long in UTF-8 (0xC3 0xA9)
EAcute == "<c3a9>"

\* number of bytes of a character in UTF-8
Utf8Width(c) == IF c = EAcute THEN 2 ELSE 1

\* mutant: the length of a text in characters
str_len_in_chars(s) == Len(s)

RECURSIVE str_len(_)
\* str::len: the length of a text in bytes
str_len(s) ==
    IF s = <<>> THEN 0
    ELSE IF Len(s) = 1 THEN Utf8Width(s[1])
    ELSE str_len(SubSeq(s, 1, Len(s) \div 2))
         + str_len(SubSeq(s, (Len(s) \div 2) + 1, Len(s)))

\* value of the first byte of the characters that occur in file names (all
\* but one are a single byte, so the first byte decides every comparison)
Byte(c) ==
    CASE c = "\"" -> 34
      [] c = "."  -> 46
      [] c = "/"  -> 47
      [] c = "B"  -> 66
      [] c = "\\" -> 92
      [] c = "a"  -> 97
      [] c = "f"  -> 102
      [] c = "m"  -> 109
      [] c = "s"  -> 115
      [] c = "x"  -> 120
      [] c = EAcute -> 195

RECURSIVE StrCmp(_, _)
\* <String as Ord>::cmp: lexicographic comparison of the UTF-8 bytes
StrCmp(s, t) ==
    IF s = <<>> /\ t = <<>> THEN "Equal"
    ELSE IF s = <<>> THEN "Less"
    ELSE IF t = <<>> THEN "Greater"
    ELSE IF Byte(Head(s)) < Byte(Head(t)) THEN "Less"
    ELSE IF Byte(Head(s)) > Byte(Head(t)) THEN "Greater"
    ELSE StrCmp(Tail(s), Tail(t))

DigitChar == <<"0", "1", "2", "3", "4", "5", "6", "7", "8", "9">>

RECURSIVE U64ToString(_)
\* decimal rendering of an unsigned integer
U64ToString(n) ==
    IF n < 10 THEN <<DigitChar[n + 1]>>
    ELSE U64ToString(n \div 10) \o <<DigitChar[(n % 10) + 1]>>

\* httpdate::fmt_http_date for a modification time of t seconds after the
\* epoch, t < 60: "Thu, 01 Jan 1970 00:00:SS GMT"
fmt_http_date(t) ==
    <<"T", "h", "u", ",", " ", "0", "1", " ", "J", "a", "n", " ",
      "1", "9", "7", "0", " ", "0", "0", ":", "0", "0", ":">>
    \o <<DigitChar[(t \div 10) + 1], DigitChar[(t % 10) + 1]>>
    \o <<" ", "G", "M", "T">>

(* ---------------------------- ExplorerEntry ---------------------------- *)

Directory(name, mtime) ==
    [type |-> "directory", mtime |-> mtime, name |-> name]

File(name, mtime, size) ==
    [type |-> "file", mtime |-> mtime, name |-> name, size |-> size]

\* mutant: the variant is ignored, entries are ordered by name alone
cmp_by_name_only(self, other) == StrCmp(self.name, other.name)

\* impl Ord for ExplorerEntry
cmp(self, other) ==
    IF self.type = other.type THEN StrCmp(self.name, other.name)
    ELSE IF self.type = "directory" THEN "Less"
    ELSE "Greater"

RECURSIVE Merge(_, _)
\* merge step of the stable merge sort: the left run wins ties
Merge(l, r) ==
    IF l = <<>> THEN r
    ELSE IF r = <<>> THEN l
    ELSE IF cmp(Head(r), Head(l)) = "Less"
         THEN <<Head(r)>> \o Merge(l, Tail(r))
         ELSE <<Head(l)>> \o Merge(Tail(l), r)

\* mutant: the list is left in the order it was collected in
par_sort_skipped(v) == v

RECURSIVE par_sort(_)
\* rayon's par_sort: a stable merge sort under Ord::cmp
par_sort(v) ==
    IF Len(v) <= 1 THEN v
    ELSE LET mid == Len(v) \div 2
         IN Merge(par_sort(SubSeq(v, 1, mid)),
                  par_sort(SubSeq(v, mid + 1, Len(v))))

(* ---------------------------- serializer ------------------------------- *)

\* mutant: names are written without escaping
Escape_nothing(s) == s

RECURSIVE Escape(_)
\* JSON string escaping of the characters of the name alphabet
Escape(s) ==
    IF s = <<>> THEN <<>>
    ELSE IF Head(s) = "\"" \/ Head(s) = "\\"
         THEN <<"\\", Head(s)>> \o Escape(Tail(s))
         ELSE <<Head(s)>> \o Escape(Tail(s))

JsonString(s) == <<"\"">> \o Escape(s) \o <<"\"">>

KeyType == <<"t", "y", "p", "e">>
KeyMtime == <<"m", "t", "i", "m", "e">>
KeyName == <<"n", "a", "m", "e">>
KeySize == <<"s", "i", "z", "e">>
TagDirectory == <<"d", "i", "r", "e", "c", "t", "o", "r", "y">>
TagFile == <<"f", "i", "l", "e">>

\* mutant: the size member is left out of file objects
SerializeEntry_without_size(e) ==
    <<"{">> \o JsonString(KeyType) \o <<":">>
    \o JsonString(IF e.type = "directory" THEN TagDirectory ELSE TagFile)
    \o <<",">> \o JsonString(KeyMtime) \o <<":">> \o JsonString(e.mtime)
    \o <<",">> \o JsonString(KeyName) \o <<":">> \o JsonString(e.name)
    \o <<"}">>

\* #[derive(Serialize)] #[serde(tag = "type", rename_all = "lowercase")]:
\* the tag first, then the variant's fields in declaration order
SerializeEntry(e) ==
    <<"{">> \o JsonString(KeyType) \o <<":">>
    \o JsonString(IF e.type = "directory" THEN TagDirectory ELSE TagFile)
    \o <<",">> \o JsonString(KeyMtime) \o <<":">> \o JsonString(e.mtime)
    \o <<",">> \o JsonString(KeyName) \o <<":">> \o JsonString(e.name)
    \o (IF e.type = "file"
        THEN <<",">> \o JsonString(KeySize) \o <<":">> \o U64ToString(e.size)
        ELSE <<>>)
    \o <<"}">>

RECURSIVE SerializeSeq(_)
SerializeSeq(v) ==
    IF v = <<>> THEN <<>>
    ELSE IF Len(v) = 1 THEN SerializeEntry(v[1])
    ELSE SerializeEntry(v[1]) \o <<",">> \o SerializeSeq(Tail(v))

\* sonic_rs::to_string(&file_list)
to_string(v) == <<"[">> \o SerializeSeq(v) \o <<"]">>

(* ---------------------------- filesystem ------------------------------- *)

\* component names of the fixed part of the tree
NameSrv == <<"s">>
NameA == <<"a">>
NameF == <<"f">>
DotDot == <<".", ".">>
Dot == <<".">>

\* node kinds: a directory, a regular file, a symlink whose target does not
\* exist (stat fails with ENOENT), a symlink whose target cannot be reached
\* for lack of search permission (stat fails with EACCES)
Kinds == {"dir", "file", "broken", "denied"}

\* the kinds the child of that name can have
KindsOf(n) ==
    IF n \in {<<"a">>, <<"B">>} THEN {"dir", "file"}
    ELSE IF n = <<EAcute, "\"">> THEN {"file", "broken"}
    ELSE {"broken", "denied"}

Node(kind, mtime, size) == [kind |-> kind, mtime |-> mtime, size |-> size]

\* names a child of directory "a" can have
NamesA == {<<"a">>, <<"B">>, <<EAcute, "\"">>, <<"x">>}

\* the candidate children of directory "a"
PoolA ==
    {c \in {[name |-> n, node |-> Node(k, 1, IF k = "file" THEN 10 ELSE 0)] :
               n \in NamesA, k \in Kinds} : c.node.kind \in KindsOf(c.name)}

DistinctNames(S) == \A c, d \in S : c.name = d.name => c = d

ContentsA == {S \in SUBSET PoolA : Cardinality(S) <= MaxChildren /\ DistinctNames(S)}

FixedPaths == {<<>>, <<NameSrv>>, <<NameSrv, NameA>>, <<NameSrv, NameF>>}

FixedNode(p) ==
    IF p = <<NameSrv, NameF>> THEN Node("file", 0, 10) ELSE Node("dir", 0, 0)

\* the tree: /s is the served directory, with children a (a directory)
\* and f (a regular file); ca are the children of a
MakeFs(ca) ==
    LET pa == {<<NameSrv, NameA, c.name>> : c \in ca}
    IN [p \in FixedPaths \cup pa |->
          IF p \in FixedPaths THEN FixedNode(p)
          ELSE (CHOOSE c \in ca : c.name = p[3]).node]

RECURSIVE Split(_, _, _)
\* the components of a path: the text between separators, empty ones dropped
Split(p, cur, acc) ==
    IF p = <<>> THEN (IF cur = <<>> THEN acc ELSE Append(acc, cur))
    ELSE IF Head(p) = "/"
         THEN Split(Tail(p), <<>>, IF cur = <<>> THEN acc ELSE Append(acc, cur))
         ELSE Split(Tail(p), Append(cur, Head(p)), acc)

Components(p) == Split(p, <<>>, <<>>)

RECURSIVE PathString(_)
\* the absolute path text of a node
PathString(at) ==
    IF at = <<>> THEN <<"/">>
    ELSE IF Len(at) = 1 THEN <<"/">> \o at[1]
    ELSE PathString(SubSeq(at, 1, Len(at) - 1)) \o <<"/">> \o at[Len(at)]

StatErr(errno) == [ok |-> FALSE, errno |-> errno, at |-> <<>>]

\* why a node cannot be stat-ed or searched, as stat(2) reports it
NodeErrno(f, at) ==
    IF at \notin DOMAIN f THEN "ENOENT"
    ELSE IF f[at].kind = "broken" THEN "ENOENT"
    ELSE IF f[at].kind = "denied" THEN "EACCES"
    ELSE "OK"

RECURSIVE Walk(_, _, _)
\* path resolution from node at over the remaining components
Walk(f, comps, at) ==
    IF NodeErrno(f, at) # "OK" THEN StatErr(NodeErrno(f, at))
    ELSE IF comps = <<>> THEN [ok |-> TRUE, errno |-> "OK", at |-> at]
    ELSE IF f[at].kind # "dir" THEN StatErr("ENOTDIR")
    ELSE IF Head(comps) = Dot THEN Walk(f, Tail(comps), at)
    ELSE IF Head(comps) = DotDot
         THEN Walk(f, Tail(comps),
                   IF at = <<>> THEN at ELSE SubSeq(at, 1, Len(at) - 1))
         ELSE Walk(f, Tail(comps), Append(at, Head(comps)))

\* std::fs::metadata(path): stat following symlinks
metadata(f, path) == Walk(f, Components(path), <<>>)

\* mutant: the existence check never fails
exists_always(f, path) == TRUE

\* Path::exists
exists(f, path) == metadata(f, path).ok

\* mutant: every existing path counts as a directory
is_dir_if_exists(f, path) == metadata(f, path).ok

\* Path::is_dir
is_dir(f, path) ==
    LET m == metadata(f, path) IN m.ok /\ f[m.at].kind = "dir"

\* Path::canonicalize
canonicalize(f, path) ==
    LET m == metadata(f, path)
    IN IF m.ok THEN [ok |-> TRUE, path |-> PathString(m.at)]
       ELSE [ok |-> FALSE, path |-> <<>>]

\* Path::join
join(base, rel) ==
    IF rel # <<>> /\ Head(rel) = "/" THEN rel
    ELSE IF base # <<>> /\ base[Len(base)] = "/" THEN base \o rel
    ELSE base \o <<"/">> \o rel

\* the error of opening a directory for reading, "OK" if there is none
opendir(f, path) ==
    LET m == metadata(f, path)
    IN IF ~m.ok THEN m.errno
       ELSE IF f[m.at].kind # "dir" THEN "ENOTDIR"
       ELSE "OK"

\* std::fs::read_dir: one DirEntry per immediate child
read_dir(f, path) ==
    LET d == metadata(f, path).at
    IN {[dir |-> path, file_name |-> p[Len(p)]] :
          p \in {q \in DOMAIN f : Len(q) = Len(d) + 1
                                  /\ SubSeq(q, 1, Len(d)) = d}}

(* ---------------------------- entry resolver --------------------------- *)

\* marks a byte of a file name that is not valid UTF-8
InvalidByte == "<ff>"

\* OsStr::to_str
to_str(name) == \A i \in 1..Len(name) : name[i] # InvalidByte

Err(class, path) == [ok |-> FALSE, class |-> class, path |-> path]

\* mutant: a name that is not valid text is converted lossily instead of
\* being refused
ExplorerEntry_new_lossy(f, file) ==
    LET path == join(file.dir, file.file_name)
        md == metadata(f, path)
    IN IF ~md.ok THEN Err("MissingSymlinkTarget", path)
       ELSE LET mtime == fmt_http_date(f[md.at].mtime)
            IN [ok |-> TRUE,
                entry |-> IF f[md.at].kind = "dir"
                          THEN Directory(file.file_name, mtime)
                          ELSE File(file.file_name, mtime, f[md.at].size)]

\* ExplorerEntry::new
ExplorerEntry_new(f, file) ==
    LET path == join(file.dir, file.file_name)
        md == metadata(f, path)
    IN IF ~md.ok THEN Err("MissingSymlinkTarget", path)
       ELSE IF ~to_str(file.file_name) THEN Err("InvalidFileName", path)
       ELSE LET mtime == fmt_http_date(f[md.at].mtime)
            IN [ok |-> TRUE,
                entry |-> IF f[md.at].kind = "dir"
                          THEN Directory(file.file_name, mtime)
                          ELSE File(file.file_name, mtime, f[md.at].size)]

(* ---------------------------- service ---------------------------------- *)

\* the spawned request tasks (one per accepted connection)
Tasks == {"t1", "t2"}

\* Service.directory, the configured directory
RootDirectory == <<"/", "s">>

\* request targets
Targets == {<<"/">>, <<"/", "a">>, <<"/", "f">>, <<"/", "m">>}

\* the whitespace-separated parts of the request line a client sends
Requests ==
    {<<"GET", t, "HTTP/1.1">> : t \in Targets}
    \cup {<<"POST", <<"/", "a">>, "HTTP/1.1">>, <<"GET", <<"/", "a">>>>}

NoRequest == <<>>

MsgMethodNotAllowed ==
    <<"M", "e", "t", "h", "o", "d", " ", "N", "o", "t", " ",
      "A", "l", "l", "o", "w", "e", "d", "!">>
MsgPathNotFound ==
    <<"P", "a", "t", "h", " ", "n", "o", "t", " ", "f", "o", "u", "n", "d", "!">>
MsgNotDirectory ==
    <<"N", "o", "t", " ", "a", " ", "d", "i", "r", "e", "c", "t", "o", "r", "y", "!">>

\* the closure make_http_response: status line, Content-Type,
\* Content-Length, blank line, content
make_http_response(status, content_type, content) ==
    [status |-> status, content_type |-> content_type,
     content_length |-> str_len(content), content |-> content]

\* QueryResult and the error arm of Result<QueryResult>
NoResult == [tag |-> "None"]
Success(data_text) == [tag |-> "Success", data_text |-> data_text]
PathNotFound == [tag |-> "PathNotFound"]
NotDirectory == [tag |-> "NotDirectory"]
Failed(class, path) == [tag |-> "Err", class |-> class, path |-> path]

Init ==
    /\ fs \in {MakeFs(ca) : ca \in ContentsA}
    /\ pc = [t \in Tasks |-> "idle"]
    /\ request = [t \in Tasks |-> NoRequest]
    /\ full_path = [t \in Tasks |-> <<>>]
    /\ absolute_path = [t \in Tasks |-> <<>>]
    /\ pending = [t \in Tasks |-> {}]
    /\ file_list = [t \in Tasks |-> <<>>]
    /\ collected = [t \in Tasks |-> <<>>]
    /\ polling = {}
    /\ result = [t \in Tasks |-> NoResult]
    /\ socket_out = [t \in Tasks |-> <<>>]

\* start_listening: accept a connection and spawn handle_request on it
Accept(t) ==
    /\ pc[t] = "idle"
    /\ \E req \in Requests : request' = [request EXCEPT ![t] = req]
    /\ pc' = [pc EXCEPT ![t] = "read"]
    /\ UNCHANGED <<fs, full_path, absolute_path, pending, file_list, collected,
                   polling, result, socket_out>>

\* handle_request up to the call of query_directory, run by an executor
\* thread once the request has arrived: read and parse the request line,
\* reject malformed requests and other methods, join the path.  The call of
\* query_directory that follows is an ordinary call: the thread stays with
\* the task until handle_request returns
ReadRequest(t) ==
    /\ pc[t] = "read"
    /\ Cardinality(polling) < ExecutorThreads
    /\ IF Len(request[t]) < 3
       THEN /\ result' = [result EXCEPT ![t] = Failed("InvalidHttpRequest", <<>>)]
            /\ pc' = [pc EXCEPT ![t] = "done"]
            /\ UNCHANGED <<full_path, socket_out, polling>>
       ELSE IF request[t][1] # "GET"
       THEN /\ socket_out' = [socket_out EXCEPT ![t] = Append(@,
                 make_http_response("404 Method Not Allowed", "text/plain",
                                    MsgMethodNotAllowed))]
            /\ pc' = [pc EXCEPT ![t] = "done"]
            /\ UNCHANGED <<full_path, result, polling>>
       ELSE /\ full_path' = [full_path EXCEPT ![t] =
                 join(RootDirectory, Tail(request[t][2]))]
            /\ pc' = [pc EXCEPT ![t] = "query"]
            /\ polling' = polling \cup {t}
            /\ UNCHANGED <<result, socket_out>>
    /\ UNCHANGED <<fs, request, absolute_path, pending, file_list, collected>>

\* query_directory: if !directory.exists()
CheckExists(t) ==
    /\ pc[t] = "query"
    /\ IF ~exists(fs, full_path[t])
       THEN /\ result' = [result EXCEPT ![t] = PathNotFound]
            /\ pc' = [pc EXCEPT ![t] = "respond"]
       ELSE /\ pc' = [pc EXCEPT ![t] = "is_dir"]
            /\ UNCHANGED result
    /\ UNCHANGED <<fs, request, full_path, absolute_path, pending, file_list,
                   collected, polling, socket_out>>

\* mutant: a path that is not a directory is resolved again
CheckIsDir_retry(t) ==
    /\ pc[t] = "is_dir"
    /\ IF ~is_dir(fs, full_path[t])
       THEN pc' = [pc EXCEPT ![t] = "query"]
       ELSE pc' = [pc EXCEPT ![t] = "canonicalize"]
    /\ UNCHANGED <<fs, request, full_path, absolute_path, pending, file_list,
                   collected, polling, result, socket_out>>

\* query_directory: if !directory.is_dir()
CheckIsDir(t) ==
    /\ pc[t] = "is_dir"
    /\ IF ~is_dir(fs, full_path[t])
       THEN /\ result' = [result EXCEPT ![t] = NotDirectory]
            /\ pc' = [pc EXCEPT ![t] = "respond"]
       ELSE /\ pc' = [pc EXCEPT ![t] = "canonicalize"]
            /\ UNCHANGED result
    /\ UNCHANGED <<fs, request, full_path, absolute_path, pending, file_list,
                   collected, polling, socket_out>>

\* query_directory: directory.canonicalize()?
Canonicalize(t) ==
    /\ pc[t] = "canonicalize"
    /\ LET c == canonicalize(fs, full_path[t])
       IN IF c.ok
          THEN /\ absolute_path' = [absolute_path EXCEPT ![t] = c.path]
               /\ pc' = [pc EXCEPT ![t] = "read_dir"]
               /\ UNCHANGED result
          ELSE /\ result' = [result EXCEPT ![t] =
                    Failed(metadata(fs, full_path[t]).errno, <<>>)]
               /\ pc' = [pc EXCEPT ![t] = "respond"]
               /\ UNCHANGED absolute_path
    /\ UNCHANGED <<fs, request, full_path, pending, file_list, collected,
                   polling, socket_out>>

\* query_directory: std::fs::read_dir(&absolute_path)?
ReadDir(t) ==
    /\ pc[t] = "read_dir"
    /\ IF opendir(fs, absolute_path[t]) = "OK"
       THEN /\ pending' = [pending EXCEPT ![t] = read_dir(fs, absolute_path[t])]
            /\ pc' = [pc EXCEPT ![t] = "scan"]
            /\ UNCHANGED result
       ELSE /\ result' = [result EXCEPT ![t] =
                 Failed(opendir(fs, absolute_path[t]), <<>>)]
            /\ pc' = [pc EXCEPT ![t] = "respond"]
            /\ UNCHANGED pending
    /\ UNCHANGED <<fs, request, full_path, absolute_path, file_list, collected,
                   polling, socket_out>>

\* mutant: the entries of all tasks are collected into one shared buffer
Collect_shared(lists, t, entry) == [u \in DOMAIN lists |-> Append(lists[u], entry)]

\* the list of one task after one more entry has been collected
Collect(lists, t, entry) == [lists EXCEPT ![t] = Append(@, entry)]

\* one parallel map step of the scan: some not yet resolved child is
\* resolved; an entry is collected, an error ends the collect with that error
ResolveEntry(t) ==
    /\ pc[t] = "scan"
    /\ \E file \in pending[t] :
         LET r == ExplorerEntry_new(fs, file)
         IN IF r.ok
            THEN /\ file_list' = Collect(file_list, t, r.entry)
                 /\ collected' = [collected EXCEPT ![t] = Append(@, r.entry)]
                 /\ pending' = [pending EXCEPT ![t] = @ \ {file}]
                 /\ UNCHANGED <<pc, result>>
            ELSE /\ result' = [result EXCEPT ![t] = Failed(r.class, r.path)]
                 /\ pending' = [pending EXCEPT ![t] = {}]
                 /\ pc' = [pc EXCEPT ![t] = "respond"]
                 /\ UNCHANGED <<file_list, collected>>
    /\ UNCHANGED <<fs, request, full_path, absolute_path, polling, socket_out>>

\* the rest of query_directory once every child is collected: sort in place
\* and serialize
SortSerialize(t) ==
    /\ pc[t] = "scan"
    /\ pending[t] = {}
    /\ file_list' = [file_list EXCEPT ![t] = par_sort(@)]
    /\ result' = [result EXCEPT ![t] = Success(to_string(par_sort(file_list[t])))]
    /\ pc' = [pc EXCEPT ![t] = "respond"]
    /\ UNCHANGED <<fs, request, full_path, absolute_path, pending, collected,
                   polling, socket_out>>

\* mutant: a listing is sent as plain text
ResponseFor_plain(res) ==
    IF res.tag = "Success"
    THEN make_http_response("200 OK", "text/plain", res.data_text)
    ELSE IF res.tag = "PathNotFound"
    THEN make_http_response("404 Not Found", "text/plain", MsgPathNotFound)
    ELSE make_http_response("400 Bad Request", "text/plain", MsgNotDirectory)

\* the response handle_request writes for a QueryResult
ResponseFor(res) ==
    IF res.tag = "Success"
    THEN make_http_response("200 OK", "application/json", res.data_text)
    ELSE IF res.tag = "PathNotFound"
    THEN make_http_response("404 Not Found", "text/plain", MsgPathNotFound)
    ELSE make_http_response("400 Bad Request", "text/plain", MsgNotDirectory)

\* mutant: an error is reported to the client with its text
Respond_error_text(t) ==
    /\ pc[t] = "respond"
    /\ IF result[t].tag = "Err"
       THEN socket_out' = [socket_out EXCEPT ![t] = Append(@,
                make_http_response("500 Internal Server Error", "text/plain",
                                   result[t].path))]
       ELSE socket_out' = [socket_out EXCEPT ![t] = Append(@, ResponseFor(result[t]))]
    /\ pc' = [pc EXCEPT ![t] = "done"]
    /\ polling' = polling \ {t}
    /\ UNCHANGED <<fs, request, full_path, absolute_path, pending, file_list,
                   collected, result>>

\* handle_request after query_directory: `?` returns an error without
\* writing, every QueryResult is written as one response; the task ends and
\* its executor thread is free again
Respond(t) ==
    /\ pc[t] = "respond"
    /\ IF result[t].tag = "Err"
       THEN UNCHANGED socket_out
       ELSE socket_out' = [socket_out EXCEPT ![t] = Append(@, ResponseFor(result[t]))]
    /\ pc' = [pc EXCEPT ![t] = "done"]
    /\ polling' = polling \ {t}
    /\ UNCHANGED <<fs, request, full_path, absolute_path, pending, file_list,
                   collected, result>>

Next ==
    \E t \in Tasks :
        \/ Accept(t)
        \/ ReadRequest(t)
        \/ CheckExists(t)
        \/ CheckIsDir(t)
        \/ Canonicalize(t)
        \/ ReadDir(t)
        \/ ResolveEntry(t)
        \/ SortSerialize(t)
        \/ Respond(t)

Spec == Init /\ [][Next]_vars

(* ------------- one request against a changing directory ---------------- *)

\* largest number of children of directory "a" here
MaxEdgeChildren == 2

NamesEdge == {<<"a">>, <<InvalidByte>>, <<"x">>}

\* the kinds the child of that name can have here
KindsOfEdge(n) ==
    IF n = <<"a">> THEN {"dir", "file"}
    ELSE IF n = <<InvalidByte>> THEN {"file", "broken"}
    ELSE {"broken", "denied"}

PoolEdge ==
    {c \in {[name |-> n, node |-> Node(k, 1, IF k = "file" THEN 10 ELSE 0)] :
               n \in NamesEdge, k \in Kinds} : c.node.kind \in KindsOfEdge(c.name)}

ContentsEdge ==
    {S \in SUBSET PoolEdge : Cardinality(S) <= MaxEdgeChildren /\ DistinctNames(S)}

\* request targets, among them "/.." and "//"
EdgeTargets == {<<"/", "a">>, <<"/", "f">>, <<"/", ".", ".">>, <<"/", "/">>}

\* the client of task t1 has sent a GET request; no other connection
EdgeInit ==
    /\ fs \in {MakeFs(ca) : ca \in ContentsEdge}
    /\ pc = [t \in Tasks |-> IF t = "t1" THEN "read" ELSE "idle"]
    /\ \E target \in EdgeTargets :
         request = [t \in Tasks |->
                      IF t = "t1" THEN <<"GET", target, "HTTP/1.1">> ELSE NoRequest]
    /\ full_path = [t \in Tasks |-> <<>>]
    /\ absolute_path = [t \in Tasks |-> <<>>]
    /\ pending = [t \in Tasks |-> {}]
    /\ file_list = [t \in Tasks |-> <<>>]
    /\ collected = [t \in Tasks |-> <<>>]
    /\ polling = {}
    /\ result = [t \in Tasks |-> NoResult]
    /\ socket_out = [t \in Tasks |-> <<>>]

\* another process removes directory /s/a or one of its children (a
\* directory only once it is empty)
Unlink ==
    /\ \E p \in DOMAIN fs :
         /\ Len(p) >= 2
         /\ SubSeq(p, 1, 2) = <<NameSrv, NameA>>
         /\ \A q \in DOMAIN fs : ~(Len(q) = Len(p) + 1 /\ SubSeq(q, 1, Len(p)) = p)
         /\ fs' = [q \in DOMAIN fs \ {p} |-> fs[q]]
    /\ UNCHANGED <<pc, request, full_path, absolute_path, pending, file_list,
                   collected, polling, result, socket_out>>

EdgeNext ==
    \/ \E t \in Tasks :
          \/ ReadRequest(t)
          \/ CheckExists(t)
          \/ CheckIsDir(t)
          \/ Canonicalize(t)
          \/ ReadDir(t)
          \/ ResolveEntry(t)
          \/ SortSerialize(t)
          \/ Respond(t)
    \/ Unlink

EdgeSpec == EdgeInit /\ [][EdgeNext]_vars

(* ------------- the thread-pool server of main.rs ----------------------- *)
(* The threads of main() are the elements of Tasks; each runs              *)
(* server_function, a loop over the incoming requests.  result holds the   *)
(* response a thread is about to send, socket_out what the client of its   *)
(* current request has received.                                           *)

\* DirEntry::metadata: lstat, which does not follow a symlink
DirEntry_metadata(f, path) ==
    LET comps == Components(path)
        parent == Walk(f, SubSeq(comps, 1, Len(comps) - 1), <<>>)
    IN IF comps = <<>> \/ ~parent.ok THEN StatErr("ENOENT")
       ELSE IF Append(parent.at, comps[Len(comps)]) \notin DOMAIN f
            THEN StatErr("ENOENT")
       ELSE [ok |-> TRUE, errno |-> "OK",
             at |-> Append(parent.at, comps[Len(comps)])]

\* File::create: the entry, or a panic of one of its unwrap() calls
File_create(f, file) ==
    LET md == DirEntry_metadata(f, join(file.dir, file.file_name))
    IN IF ~md.ok \/ ~to_str(file.file_name) THEN [ok |-> FALSE]
       ELSE LET mtime == fmt_http_date(f[md.at].mtime)
            IN [ok |-> TRUE,
                entry |-> IF f[md.at].kind = "dir"
                          THEN Directory(file.file_name, mtime)
                          ELSE File(file.file_name, mtime, f[md.at].size)]

\* #[derive(Serialize)] of enum File in main.rs: name, (size,) mtime
SerializeFile(e) ==
    <<"{">> \o JsonString(KeyType) \o <<":">>
    \o JsonString(IF e.type = "directory" THEN TagDirectory ELSE TagFile)
    \o <<",">> \o JsonString(KeyName) \o <<":">> \o JsonString(e.name)
    \o (IF e.type = "file"
        THEN <<",">> \o JsonString(KeySize) \o <<":">> \o U64ToString(e.size)
        ELSE <<>>)
    \o <<",">> \o JsonString(KeyMtime) \o <<":">> \o JsonString(e.mtime)
    \o <<"}">>

RECURSIVE SerializeFiles(_)
SerializeFiles(v) ==
    IF v = <<>> THEN <<>>
    ELSE IF Len(v) = 1 THEN SerializeFile(v[1])
    ELSE SerializeFile(v[1]) \o <<",">> \o SerializeFiles(Tail(v))

\* simd_json::to_string(&file_list)
simd_json_to_string(v) == <<"[">> \o SerializeFiles(v) \o <<"]">>

\* Response::from_string(..).with_status_code(..)
Response_from_string(content, status_code) ==
    [status |-> status_code, content_type |-> "text/plain; charset=UTF-8",
     content_length |-> str_len(content), content |-> content]

ToSend(response) == [tag |-> "Response", response |-> response]

\* main: the threads are spawned and wait for requests
MainInit ==
    /\ fs \in {MakeFs(ca) : ca \in ContentsEdge}
    /\ pc = [t \in Tasks |-> "idle"]
    /\ request = [t \in Tasks |-> NoRequest]
    /\ full_path = [t \in Tasks |-> <<>>]
    /\ absolute_path = [t \in Tasks |-> <<>>]
    /\ pending = [t \in Tasks |-> {}]
    /\ file_list = [t \in Tasks |-> <<>>]
    /\ collected = [t \in Tasks |-> <<>>]
    /\ polling = {}
    /\ result = [t \in Tasks |-> NoResult]
    /\ socket_out = [t \in Tasks |-> <<>>]

\* server_function: the next request of incoming_requests() and the path
\* String::from(&*path) + request.url()
Incoming(t) ==
    /\ pc[t] = "idle"
    /\ \E url \in Targets :
         /\ request' = [request EXCEPT ![t] = <<"GET", url, "HTTP/1.1">>]
         /\ full_path' = [full_path EXCEPT ![t] = RootDirectory \o url]
    /\ socket_out' = [socket_out EXCEPT ![t] = <<>>]
    /\ pc' = [pc EXCEPT ![t] = "classify"]
    /\ UNCHANGED <<fs, absolute_path, pending, file_list, collected, polling,
                   result>>

\* server_function: the match on the path, up to read_dir
Classify(t) ==
    /\ pc[t] = "classify"
    /\ IF ~exists(fs, full_path[t])
       THEN /\ result' = [result EXCEPT ![t] =
                 ToSend(Response_from_string(MsgPathNotFound, "404"))]
            /\ pc' = [pc EXCEPT ![t] = "respond"]
            /\ UNCHANGED <<absolute_path, pending>>
       ELSE IF ~is_dir(fs, full_path[t])
       THEN IF ~canonicalize(fs, full_path[t]).ok
            THEN /\ pc' = [pc EXCEPT ![t] = "panicked"]
                 /\ UNCHANGED <<absolute_path, pending, result>>
            ELSE /\ result' = [result EXCEPT ![t] =
                      ToSend(Response_from_string(MsgNotDirectory, "400"))]
                 /\ pc' = [pc EXCEPT ![t] = "respond"]
                 /\ UNCHANGED <<absolute_path, pending>>
       ELSE IF \/ ~canonicalize(fs, full_path[t]).ok
               \/ opendir(fs, canonicalize(fs, full_path[t]).path) # "OK"
       THEN /\ pc' = [pc EXCEPT ![t] = "panicked"]
            /\ UNCHANGED <<absolute_path, pending, result>>
       ELSE /\ absolute_path' = [absolute_path EXCEPT ![t] =
                 canonicalize(fs, full_path[t]).path]
            /\ pending' = [pending EXCEPT ![t] =
                 read_dir(fs, canonicalize(fs, full_path[t]).path)]
            /\ pc' = [pc EXCEPT ![t] = "scan"]
            /\ UNCHANGED result
    /\ UNCHANGED <<fs, request, full_path, file_list, collected, polling,
                   socket_out>>

\* one parallel map step: File::create for some child; a panic in it ends
\* the thread
CreateFile(t) ==
    /\ pc[t] = "scan"
    /\ \E file \in pending[t] :
         LET r == File_create(fs, file)
         IN IF r.ok
            THEN /\ file_list' = Collect(file_list, t, r.entry)
                 /\ collected' = [collected EXCEPT ![t] = Append(@, r.entry)]
                 /\ pending' = [pending EXCEPT ![t] = @ \ {file}]
                 /\ UNCHANGED pc
            ELSE /\ pc' = [pc EXCEPT ![t] = "panicked"]
                 /\ pending' = [pending EXCEPT ![t] = {}]
                 /\ UNCHANGED <<file_list, collected>>
    /\ UNCHANGED <<fs, request, full_path, absolute_path, polling, result,
                   socket_out>>

\* server_function once every child is collected: the list is serialized
\* as collected
SerializeList(t) ==
    /\ pc[t] = "scan"
    /\ pending[t] = {}
    /\ result' = [result EXCEPT ![t] =
         ToSend(Response_from_string(simd_json_to_string(file_list[t]), "200"))]
    /\ pc' = [pc EXCEPT ![t] = "respond"]
    /\ UNCHANGED <<fs, request, full_path, absolute_path, pending, file_list,
                   collected, polling, socket_out>>

\* request.respond(response).unwrap(): the response is written, or the
\* client has closed the connection and the unwrap panics; then the next
\* iteration of the loop
SendResponse(t) ==
    /\ pc[t] = "respond"
    /\ \E connected \in BOOLEAN :
         IF connected
         THEN /\ socket_out' = [socket_out EXCEPT ![t] = <<result[t].response>>]
              /\ pc' = [pc EXCEPT ![t] = "idle"]
         ELSE /\ pc' = [pc EXCEPT ![t] = "panicked"]
              /\ UNCHANGED socket_out
    /\ absolute_path' = [absolute_path EXCEPT ![t] = <<>>]
    /\ file_list' = [file_list EXCEPT ![t] = <<>>]
    /\ collected' = [collected EXCEPT ![t] = <<>>]
    /\ result' = [result EXCEPT ![t] = NoResult]
    /\ UNCHANGED <<fs, request, full_path, pending, polling>>

\* main: guards are joined in order; when the first thread has panicked
\* join().unwrap() panics in main and the process ends
JoinPanics ==
    /\ pc["t1"] = "panicked"
    /\ \E t \in Tasks : pc[t] \notin {"panicked", "exited"}
    /\ pc' = [t \in Tasks |-> IF pc[t] = "panicked" THEN "panicked" ELSE "exited"]
    /\ UNCHANGED <<fs, request, full_path, absolute_path, pending, file_list,
                   collected, polling, result, socket_out>>

MainNext ==
    \/ \E t \in Tasks :
          \/ Incoming(t)
          \/ Classify(t)
          \/ CreateFile(t)
          \/ SerializeList(t)
          \/ SendResponse(t)
    \/ JoinPanics

MainSpec == MainInit /\ [][MainNext]_vars

(* ------------- the sort / serialize pipeline on arbitrary lists -------- *)

PipelineNames == {<<"a">>, <<"B">>, <<"a", "\"", "\\">>}

\* the entries a list handed to the pipeline is made of
PipelineEntries ==
    {Directory(n, fmt_http_date(3)) : n \in PipelineNames}
    \cup {File(n, fmt_http_date(3), 0) : n \in PipelineNames}
    \cup {File(n, fmt_http_date(45), 10) : n \in PipelineNames}

PipelineLists == UNION {[1..n -> PipelineEntries] : n \in 0..MaxLen}

\* task t1 has collected an arbitrary list of entries for /s/a and is about
\* to sort it
PipelineInit ==
    /\ fs = MakeFs({})
    /\ pc = [t \in Tasks |-> IF t = "t1" THEN "scan" ELSE "idle"]
    /\ request = [t \in Tasks |->
                    IF t = "t1" THEN <<"GET", <<"/", "a">>, "HTTP/1.1">>
                    ELSE NoRequest]
    /\ full_path = [t \in Tasks |-> IF t = "t1" THEN <<"/", "s", "/", "a">> ELSE <<>>]
    /\ absolute_path = full_path
    /\ pending = [t \in Tasks |-> {}]
    /\ \E l \in PipelineLists :
         /\ file_list = [t \in Tasks |-> IF t = "t1" THEN l ELSE <<>>]
         /\ collected = file_list
    /\ polling = {"t1"}
    /\ result = [t \in Tasks |-> NoResult]
    /\ socket_out = [t \in Tasks |-> <<>>]

PipelineNext == SortSerialize("t1") \/ Respond("t1")

PipelineSpec == PipelineInit /\ [][PipelineNext]_vars

(* ---------------------------- a JSON reader ---------------------------- *)
(* What a client that decodes a listing reads: an array of objects whose    *)
(* members are strings or unsigned numbers.  A result is                    *)
(* [ok, val, next]: val is the value read and next the position after it.  *)

ParseFail == [ok |-> FALSE, val |-> <<>>, next |-> 0]

At(s, i) == IF i \in 1..Len(s) THEN s[i] ELSE "<eof>"

Digits == {DigitChar[d] : d \in 1..10}

DigitVal(c) == (CHOOSE d \in 1..10 : DigitChar[d] = c) - 1

RECURSIVE ParseChars(_, _, _)
\* the characters of a string literal, from the position after its opening quote
ParseChars(s, i, acc) ==
    IF i > Len(s) THEN ParseFail
    ELSE IF s[i] = "\"" THEN [ok |-> TRUE, val |-> acc, next |-> i + 1]
    ELSE IF s[i] = "\\"
         THEN IF At(s, i + 1) \in {"\"", "\\"}
              THEN ParseChars(s, i + 2, Append(acc, s[i + 1]))
              ELSE ParseFail
         ELSE ParseChars(s, i + 1, Append(acc, s[i]))

ParseString(s, i) ==
    IF At(s, i) = "\"" THEN ParseChars(s, i + 1, <<>>) ELSE ParseFail

RECURSIVE ParseDigits(_, _, _)
ParseDigits(s, i, acc) ==
    IF At(s, i) \in Digits THEN ParseDigits(s, i + 1, acc * 10 + DigitVal(s[i]))
    ELSE [ok |-> TRUE, val |-> acc, next |-> i]

ParseNumber(s, i) ==
    IF At(s, i) \in Digits THEN ParseDigits(s, i, 0) ELSE ParseFail

\* a member value: [isStr, str, num]
ParseValue(s, i) ==
    IF At(s, i) = "\""
    THEN LET r == ParseString(s, i)
         IN IF r.ok THEN [ok |-> TRUE, next |-> r.next,
                          val |-> [isStr |-> TRUE, str |-> r.val, num |-> 0]]
            ELSE ParseFail
    ELSE LET r == ParseNumber(s, i)
         IN IF r.ok THEN [ok |-> TRUE, next |-> r.next,
                          val |-> [isStr |-> FALSE, str |-> <<>>, num |-> r.val]]
            ELSE ParseFail

RECURSIVE ParseMembers(_, _, _)
\* the members of an object, from the position of the first key; the value
\* is the sequence of [key, value] members
ParseMembers(s, i, acc) ==
    LET k == ParseString(s, i)
    IN IF ~k.ok \/ At(s, k.next) # ":" THEN ParseFail
       ELSE LET v == ParseValue(s, k.next + 1)
                members == Append(acc, [key |-> k.val, value |-> v.val])
            IN IF ~v.ok THEN ParseFail
               ELSE IF At(s, v.next) = "," THEN ParseMembers(s, v.next + 1, members)
               ELSE IF At(s, v.next) = "}"
                    THEN [ok |-> TRUE, val |-> members, next |-> v.next + 1]
               ELSE ParseFail

ParseObject(s, i) ==
    IF At(s, i) # "{" THEN ParseFail
    ELSE IF At(s, i + 1) = "}" THEN [ok |-> TRUE, val |-> <<>>, next |-> i + 2]
    ELSE ParseMembers(s, i + 1, <<>>)

RECURSIVE ParseElements(_, _, _)
ParseElements(s, i, acc) ==
    LET o == ParseObject(s, i)
    IN IF ~o.ok THEN ParseFail
       ELSE IF At(s, o.next) = "," THEN ParseElements(s, o.next + 1, Append(acc, o.val))
       ELSE IF At(s, o.next) = "]"
            THEN [ok |-> TRUE, val |-> Append(acc, o.val), next |-> o.next + 1]
       ELSE ParseFail

\* the whole text read as an array of objects
ParseArray(s) ==
    LET r == IF At(s, 1) # "[" THEN ParseFail
             ELSE IF At(s, 2) = "]" THEN [ok |-> TRUE, val |-> <<>>, next |-> 3]
             ELSE ParseElements(s, 2, <<>>)
    IN IF r.ok /\ r.next = Len(s) + 1 THEN r ELSE ParseFail

Keys(obj) == {obj[j].key : j \in 1..Len(obj)}

Member(obj, key) == obj[CHOOSE j \in 1..Len(obj) : obj[j].key = key].value

UniqueKeys(obj) == \A i, j \in 1..Len(obj) : obj[i].key = obj[j].key => i = j

\* the entry an object of a listing denotes
ObjectEntry(obj) ==
    IF /\ UniqueKeys(obj)
       /\ Keys(obj) = {KeyType, KeyMtime, KeyName}
       /\ \A k \in Keys(obj) : Member(obj, k).isStr
       /\ Member(obj, KeyType).str = TagDirectory
    THEN Directory(Member(obj, KeyName).str, Member(obj, KeyMtime).str)
    ELSE IF /\ UniqueKeys(obj)
            /\ Keys(obj) = {KeyType, KeyMtime, KeyName, KeySize}
            /\ \A k \in Keys(obj) \ {KeySize} : Member(obj, k).isStr
            /\ ~Member(obj, KeySize).isStr
            /\ Member(obj, KeyType).str = TagFile
    THEN File(Member(obj, KeyName).str, Member(obj, KeyMtime).str,
              Member(obj, KeySize).num)
    ELSE [type |-> "invalid"]

\* the entries a listing body decodes to
DecodeListing(s) ==
    LET r == ParseArray(s)
    IN IF r.ok THEN [i \in 1..Len(r.val) |-> ObjectEntry(r.val[i])]
       ELSE <<[type |-> "undecodable"]>>

(* ---------------------------- properties ------------------------------- *)

\* byte-wise order of two names, stated on the bytes
BytewiseLeq(a, b) ==
    \/ /\ Len(a) <= Len(b)
       /\ \A i \in 1..Len(a) : a[i] = b[i]
    \/ \E i \in 1..Len(a) :
         /\ i <= Len(b)
         /\ \A j \in 1..(i - 1) : a[j] = b[j]
         /\ Byte(a[i]) < Byte(b[i])

Count(v, e) == Cardinality({i \in 1..Len(v) : v[i] = e})

IsPermutation(v, w) ==
    /\ Len(v) = Len(w)
    /\ \A i \in 1..Len(v) : Count(v, v[i]) = Count(w, v[i])

\* a task whose scan ended in Success: file_list is the sorted list
Succeeded(t) == pc[t] \in {"respond", "done"} /\ result[t].tag = "Success"

\* C3: the sorted list is a permutation of the collected list in which every
\* Directory precedes every File and, within each group, names are
\* non-decreasing byte-wise
C3_SortInvariant ==
    \A t \in Tasks : Succeeded(t) =>
        /\ IsPermutation(collected[t], file_list[t])
        /\ \A i, j \in 1..Len(file_list[t]) : i < j =>
             /\ ~(file_list[t][i].type = "file" /\ file_list[t][j].type = "directory")
             /\ file_list[t][i].type = file_list[t][j].type =>
                  BytewiseLeq(file_list[t][i].name, file_list[t][j].name)

\* C3 witness: a list with a file collected before a directory and two
\* names of one group collected in descending order has been sorted
C3_Witness ==
    /\ Succeeded("t1")
    /\ Len(collected["t1"]) = 3
    /\ collected["t1"][1].type = "file"
    /\ collected["t1"][2].type = "directory"
    /\ collected["t1"][3].type = "file"
    /\ collected["t1"][1].name = <<"a">>
    /\ collected["t1"][3].name = <<"B">>
    /\ file_list["t1"] # collected["t1"]

\* C7: every object of a serialized listing has the key "type" with the
\* value "directory" or "file" of its entry's variant, and has a "size"
\* member exactly when it is a "file" object
C7_SchemaFieldPresence ==
    \A t \in Tasks : Succeeded(t) =>
        LET r == ParseArray(result[t].data_text)
        IN /\ r.ok
           /\ Len(r.val) = Len(file_list[t])
           /\ \A i \in 1..Len(r.val) :
                /\ KeyType \in Keys(r.val[i])
                /\ Member(r.val[i], KeyType).isStr
                /\ Member(r.val[i], KeyType).str =
                     (IF file_list[t][i].type = "directory" THEN TagDirectory
                      ELSE TagFile)
                /\ (KeySize \in Keys(r.val[i])) <=> (file_list[t][i].type = "file")

\* C7 witness: a listing with a directory and a file has been serialized
C7_Witness ==
    /\ Succeeded("t1")
    /\ \E i, j \in 1..Len(file_list["t1"]) :
         file_list["t1"][i].type = "directory" /\ file_list["t1"][j].type = "file"
    /\ ParseArray(result["t1"].data_text).ok

\* C8: decoding the serialized body gives back the sorted sequence of
\* entries: same length, same order, same variant, name, mtime and size
C8_RoundTrip ==
    \A t \in Tasks : Succeeded(t) =>
        DecodeListing(result[t].data_text) = file_list[t]

\* C8 witness: a listing of three entries, one with a name that needs
\* escaping and one with a two-digit size, has been serialized
C8_Witness ==
    /\ Succeeded("t1")
    /\ Len(file_list["t1"]) = 3
    /\ \E i \in 1..3 : file_list["t1"][i].name = <<"a", "\"", "\\">>
    /\ \E i \in 1..3 : file_list["t1"][i].type = "file" /\ file_list["t1"][i].size = 10
    /\ Len(DecodeListing(result["t1"].data_text)) = 3

(* ---------------- the filesystem as the claims speak of it ------------- *)

\* the node a request target names under the served directory /s
TargetNode(target) ==
    CASE target = <<"/">> -> <<NameSrv>>
      [] target = <<"/", "a">> -> <<NameSrv, NameA>>
      [] target = <<"/", "f">> -> <<NameSrv, NameF>>
      [] target = <<"/", "m">> -> <<NameSrv, <<"m">>>>

IsGet(t) == Len(request[t]) >= 3 /\ request[t][1] = "GET"

ChildrenOf(at) ==
    {p \in DOMAIN fs : Len(p) = Len(at) + 1 /\ SubSeq(p, 1, Len(at)) = at}

\* task t asks for a path that does not exist
AsksMissing(t) == IsGet(t) /\ TargetNode(request[t][2]) \notin DOMAIN fs

\* task t asks for a regular file
AsksFile(t) ==
    /\ IsGet(t)
    /\ TargetNode(request[t][2]) \in DOMAIN fs
    /\ fs[TargetNode(request[t][2])].kind = "file"

\* task t asks for a directory
AsksDirectory(t) ==
    /\ IsGet(t)
    /\ TargetNode(request[t][2]) \in DOMAIN fs
    /\ fs[TargetNode(request[t][2])].kind = "dir"

\* no part of the scan has run for task t
NotEnumerated(t) ==
    absolute_path[t] = <<>> /\ pending[t] = {} /\ file_list[t] = <<>>

\* the entry a valid child is listed as
ExpectedEntry(p) ==
    IF fs[p].kind = "dir"
    THEN Directory(p[Len(p)], fmt_http_date(fs[p].mtime))
    ELSE File(p[Len(p)], fmt_http_date(fs[p].mtime), fs[p].size)

Range(v) == {v[i] : i \in 1..Len(v)}

\* C1: a directory with one broken symlink and N valid children is answered
\* with status 200 and a listing of exactly the N valid entries
C1_BrokenSymlinkExcluded ==
    \A t \in Tasks :
        (/\ pc[t] = "done"
         /\ AsksDirectory(t)
         /\ LET kids == ChildrenOf(TargetNode(request[t][2]))
            IN /\ Cardinality({p \in kids : fs[p].kind = "broken"}) = 1
               /\ \A p \in kids : fs[p].kind \in {"broken", "dir", "file"})
        => /\ result[t].tag = "Success"
           /\ Len(socket_out[t]) = 1
           /\ socket_out[t][1].status = "200 OK"
           /\ LET valid == {p \in ChildrenOf(TargetNode(request[t][2])) :
                              fs[p].kind \in {"dir", "file"}}
                  listing == DecodeListing(socket_out[t][1].content)
              IN /\ Len(listing) = Cardinality(valid)
                 /\ Range(listing) = {ExpectedEntry(p) : p \in valid}

\* C2: the resolver reports MissingSymlinkTarget only for a child that is a
\* symlink whose target does not exist; any other failure of the metadata
\* fetch is reported as a different error
C2_MissingSymlinkOnlyWhenBroken ==
    \A t \in Tasks :
        (result[t].tag = "Err" /\ result[t].class = "MissingSymlinkTarget")
        => \E p \in DOMAIN fs :
             PathString(p) = result[t].path /\ fs[p].kind = "broken"

\* C4: a GET for a path that does not exist is never enumerated and is
\* answered with 404 and the plain text "Path not found!"
C4_MissingPath404 ==
    \A t \in Tasks : AsksMissing(t) =>
        /\ NotEnumerated(t)
        /\ pc[t] = "done" =>
             socket_out[t] = <<[status |-> "404 Not Found",
                                content_type |-> "text/plain",
                                content_length |-> 15,
                                content |-> MsgPathNotFound]>>

\* C4 witness: the request for the missing path /m has been answered
C4_Witness ==
    /\ AsksMissing("t1")
    /\ pc["t1"] = "done"
    /\ Len(socket_out["t1"]) = 1

\* C5: a GET for a path that is a regular file is never enumerated and is
\* answered with 400 and the plain text "Not a directory!"
C5_NotDirectory400 ==
    \A t \in Tasks : AsksFile(t) =>
        /\ NotEnumerated(t)
        /\ pc[t] = "done" =>
             socket_out[t] = <<[status |-> "400 Bad Request",
                                content_type |-> "text/plain",
                                content_length |-> 16,
                                content |-> MsgNotDirectory]>>

\* C5 witness: the request for the regular file /f has been answered
C5_Witness ==
    /\ AsksFile("t1")
    /\ pc["t1"] = "done"
    /\ Len(socket_out["t1"]) = 1

\* C6: the scan of a directory without children yields Success("[]"), sent
\* with status 200 and Content-Type application/json
C6_EmptyDirectory ==
    \A t \in Tasks :
        (AsksDirectory(t) /\ ChildrenOf(TargetNode(request[t][2])) = {}) =>
            /\ pc[t] \in {"respond", "done"} =>
                 result[t] = [tag |-> "Success", data_text |-> <<"[", "]">>]
            /\ pc[t] = "done" =>
                 socket_out[t] = <<[status |-> "200 OK",
                                    content_type |-> "application/json",
                                    content_length |-> 2,
                                    content |-> <<"[", "]">>]>>

\* C6 witness: the listing of the empty directory /s/a has been sent
C6_Witness ==
    /\ AsksDirectory("t1")
    /\ ChildrenOf(TargetNode(request["t1"][2])) = {}
    /\ pc["t1"] = "done"
    /\ Len(socket_out["t1"]) = 1

\* C9: two scans of the same directory return the same body, whatever the
\* order in which their entries were resolved and collected
C9_OrderNotObservable ==
    \A t, u \in Tasks :
        (/\ Succeeded(t) /\ Succeeded(u)
         /\ request[t][2] = request[u][2])
        => /\ result[t].data_text = result[u].data_text
           /\ (pc[t] = "done" /\ pc[u] = "done") => socket_out[t] = socket_out[u]

\* C9 witness: two scans of one directory collected its three entries in
\* different orders and both returned
C9_Witness ==
    /\ Succeeded("t1") /\ Succeeded("t2")
    /\ request["t1"][2] = request["t2"][2]
    /\ Len(collected["t1"]) = 3
    /\ collected["t1"] # collected["t2"]

\* C10: of two requests for different directories, each response lists
\* exactly the entries (names, mtimes, sizes) of its own directory
C10_ScansIsolated ==
    \A t, u \in Tasks :
        (/\ t # u
         /\ AsksDirectory(t) /\ AsksDirectory(u)
         /\ request[t][2] # request[u][2]
         /\ pc[t] = "done"
         /\ Len(socket_out[t]) = 1)
        => LET own == ChildrenOf(TargetNode(request[t][2]))
               listing == DecodeListing(socket_out[t][1].content)
           IN /\ Len(listing) = Cardinality(own)
              /\ Range(listing) = {ExpectedEntry(p) : p \in own}
              /\ result[t].data_text = socket_out[t][1].content

\* C10 witness: the listing of /s/a has been sent while the scan of /s was
\* under way and had collected an entry
C10_Witness ==
    /\ AsksDirectory("t1") /\ AsksDirectory("t2")
    /\ request["t1"][2] = <<"/", "a">>
    /\ request["t2"][2] = <<"/">>
    /\ pc["t1"] = "done"
    /\ Len(socket_out["t1"]) = 1
    /\ Len(file_list["t1"]) >= 2
    /\ pc["t2"] = "scan"
    /\ Len(file_list["t2"]) = 1

\* the positions of handle_request inside the call of query_directory
InQueryDirectory(t) ==
    pc[t] \in {"query", "is_dir", "canonicalize", "read_dir", "scan"}

\* C11: while a task's directory scan is in progress the task is suspended,
\* no thread of the async runtime is running it
C11_ScanOffExecutorThread ==
    \A t \in Tasks : InQueryDirectory(t) => t \notin polling

\* the text of a path occurs in a text
Occurs(path, text) ==
    \E i \in 1..(Len(text) - Len(path) + 1) :
        SubSeq(text, i, i + Len(path) - 1) = path

\* number of bytes of a text, counted byte by byte
ByteCount(text) ==
    Len(text) + Cardinality({i \in 1..Len(text) : text[i] = EAcute})

\* C12: nothing is written to a client before handle_request has the
\* outcome and the whole body; at most one response is written per request,
\* as one message whose Content-Length is the byte length of its body
C12_OneCompleteResponse ==
    \A t \in Tasks :
        /\ Len(socket_out[t]) <= 1
        /\ socket_out[t] # <<>> =>
             /\ pc[t] = "done"
             /\ socket_out[t][1].content_length = ByteCount(socket_out[t][1].content)
             /\ result[t].tag = "Success" =>
                  socket_out[t][1].content = result[t].data_text
             /\ IsGet(t) => result[t].tag \in {"Success", "PathNotFound", "NotDirectory"}

\* C12 witness: a listing with a name outside ASCII has been written
C12_Witness ==
    /\ pc["t1"] = "done"
    /\ Len(socket_out["t1"]) = 1
    /\ socket_out["t1"][1].status = "200 OK"
    /\ socket_out["t1"][1].content_length > Len(socket_out["t1"][1].content)

ServerErrorStatuses ==
    {"500 Internal Server Error", "501 Not Implemented", "502 Bad Gateway",
     "503 Service Unavailable", "504 Gateway Timeout"}

\* C13: a request whose scan of an existing directory failed is answered
\* with a 5xx response
C13_FatalScanGets5xx ==
    \A t \in Tasks :
        (pc[t] = "done" /\ AsksDirectory(t) /\ result[t].tag = "Err")
        => /\ Len(socket_out[t]) = 1
           /\ socket_out[t][1].status \in ServerErrorStatuses

FixedMessages == {MsgMethodNotAllowed, MsgPathNotFound, MsgNotDirectory}

\* the base names of the children of the directory task t asked for
ChildNames(t) == {p[Len(p)] : p \in ChildrenOf(TargetNode(request[t][2]))}

\* C14: a response body is one of the fixed messages or a listing of base
\* names of children; it never holds the served directory's path, the
\* resolved path or the path an error carries
C14_NoPathInResponse ==
    \A t \in Tasks : \A i \in 1..Len(socket_out[t]) :
        LET body == socket_out[t][i].content
        IN /\ \/ body \in FixedMessages
              \/ /\ ParseArray(body).ok
                 /\ \A j \in 1..Len(DecodeListing(body)) :
                      DecodeListing(body)[j].name \in ChildNames(t)
           /\ ~Occurs(RootDirectory, body)
           /\ ~Occurs(<<"/">>, body)

\* C14 witness: one task was answered with a listing and the other's scan
\* failed with an error that carries a path
C14_Witness ==
    /\ pc["t1"] = "done" /\ pc["t2"] = "done"
    /\ Len(socket_out["t1"]) = 1
    /\ socket_out["t1"][1].status = "200 OK"
    /\ result["t2"].tag = "Err"
    /\ Occurs(RootDirectory, result["t2"].path)

\* the transitions of a request task
AllowedEdges ==
    {<<"idle", "read">>, <<"read", "query">>, <<"read", "done">>,
     <<"query", "is_dir">>, <<"query", "respond">>,
     <<"is_dir", "canonicalize">>, <<"is_dir", "respond">>,
     <<"canonicalize", "read_dir">>, <<"canonicalize", "respond">>,
     <<"read_dir", "scan">>, <<"read_dir", "respond">>,
     <<"scan", "respond">>, <<"respond", "done">>}

\* C15: query_directory goes Resolving -> {Missing, NotADirectory, Found},
\* Found -> Scanning -> {Success, Fatal}: each check is passed once, in
\* order, never again; the directory is enumerated only after both checks
\* passed; the call ends in PathNotFound, NotDirectory, Success or an error
C15_StateMachine ==
    [][\A t \in Tasks :
         /\ pc'[t] # pc[t] =>
              /\ <<pc[t], pc'[t]>> \in AllowedEdges
              /\ (pc[t] = "query" /\ pc'[t] = "respond") => result'[t] = PathNotFound
              /\ (pc[t] = "is_dir" /\ pc'[t] = "respond") => result'[t] = NotDirectory
              /\ (pc[t] \in {"canonicalize", "read_dir"} /\ pc'[t] = "respond")
                   => result'[t].tag = "Err"
              /\ (pc[t] = "scan" /\ pc'[t] = "respond")
                   => result'[t].tag \in {"Success", "Err"}
              /\ pc[t] = "respond" => result'[t] = result[t]
         /\ (pending'[t] # pending[t] \/ file_list'[t] # file_list[t])
              => pc[t] \in {"read_dir", "scan"}
         /\ (InQueryDirectory(t) /\ pc'[t] = pc[t]) => result'[t] = NoResult
      ]_vars

\* C15 witness: a call went through every state and ended in Success
C15_Witness ==
    /\ pc["t1"] = "done"
    /\ result["t1"].tag = "Success"
    /\ Len(file_list["t1"]) >= 1

\* C16: a requested path that does not exist when it is resolved,
\* canonicalized or opened never ends the request with a propagated error
C16_MissingNeverFatal ==
    \A t \in Tasks :
        result[t].tag = "Err" => result[t].class # "ENOENT"

\* the directory task t lists still holds a child whose name is not valid text
ListsInvalidName(t) ==
    /\ pc[t] \in {"respond", "done"}
    /\ absolute_path[t] = <<"/", "s", "/", "a">>
    /\ \E p \in DOMAIN fs :
         /\ Len(p) = 3
         /\ SubSeq(p, 1, 2) = <<NameSrv, NameA>>
         /\ ~to_str(p[3])

C20_ListingInsideRoot ==
    \A t \in Tasks : Succeeded(t) =>
        /\ Components(absolute_path[t]) # <<>>
        /\ Head(Components(absolute_path[t])) = NameSrv

\* C18: the entries of every successful listing of server_function are
\* in the Sorter's order: directories before files, names ascending
C18_MainListingSorted ==
    \A t \in Tasks :
        (/\ pc[t] = "respond"
         /\ result[t].tag = "Response"
         /\ result[t].response.status = "200")
        => \E l \in {DecodeListing(result[t].response.content)} :
             \A m, n \in 1..Len(l) : m < n =>
                /\ ~(l[m].type = "file" /\ l[n].type = "directory")
                /\ l[m].type = l[n].type => BytewiseLeq(l[m].name, l[n].name)

\* C19: whatever happens to a request, every thread of the server keeps
\* looping over the incoming requests
C19_ThreadCountStays ==
    \A t \in Tasks : pc[t] \notin {"panicked", "exited"}

====
